---- MODULE Spec2Model ----
(***************************************************************************)
(* Model of app/entities/chunk.py: the Chunk class (load, hydration,       *)
(* stitched generation, persistence) and its per-tick update loop.         *)
(*                                                                         *)
(* Block, the database session/models and the game objects live in other   *)
(* modules of the application; what Chunk needs of them is modelled from   *)
(* their documented contract (see the definitions marked "contract").      *)
(***************************************************************************)
EXTENDS Integers, Sequences, FiniteSets, TLC

\* ------------------------------------------------------------------ bounds
MaxWindow == 3      \* window_width, window_height range over MaxBlock..MaxWindow
MaxBlock == 2       \* block_width, block_height range over 1..MaxBlock
MaxObjects == 3     \* length of a chunk's combined game-object list
MaxPos == 1         \* game-object positions: 0..MaxPos
MaxDepth == 3       \* nested Chunk.load calls before Python's RecursionError
MaxAccess == 3      \* neighbour-accessor reads followed

\* -------------------------------------------------------- program constants
NumMobs == 5        \* chunk.add_mobs(5)
MobSize == 50       \* Mob(width=50, height=50)

VARIABLES
    config,       \* the config module: window_width/height, block_width/height
    db_chunks,    \* the rows of the models.Chunk table
    db_blocks,    \* the rows of the block table
    img_files,    \* names of the chunk images present on disk
    heap,         \* Block objects created by the latest Chunk.load call
    chunks,       \* Chunk objects created by the latest Chunk.load call
    ret,          \* the latest Chunk.load call: arguments and outcome
    prev,         \* how the latest call relates to the call before it
    resolved,     \* coordinates for which a Chunk object was handed to a caller
    objs,         \* a ticking chunk's game_objects (players+mobs+walls+objects)
    pc,           \* position of Chunk.update: "idle", "outer", "inner"
    oi,           \* index of obj in the outer loop of Chunk.update
    oj,           \* index of other_obj in the inner loop
    log,          \* calls made by the running/last tick, in order
    calls         \* calls of world.load_chunk made by the neighbour accessors

loadVars == <<db_chunks, db_blocks, img_files, heap, chunks, ret, prev, resolved>>
tickVars == <<objs, pc, oi, oj, log>>
vars == <<config, db_chunks, db_blocks, img_files, heap, chunks, ret, prev,
          resolved, objs, pc, oi, oj, log, calls>>

\* ------------------------------------------------------------ configuration
n_rows == config.window_height \div config.block_height
n_cols == config.window_width \div config.block_width

\* The configurations: a window holds at least one block each way.
Configs ==
    [window_width : MaxBlock..MaxWindow, window_height : MaxBlock..MaxWindow,
     block_width : 1..MaxBlock, block_height : 1..MaxBlock]

\* The coordinates callers ask for: a chunk, its west and its south neighbour.
Coords == {<<1, 1>>, <<0, 1>>, <<1, 0>>}

\* ------------------------------------------------------- Python sequences
\* seq[i] for a Python index i (negative indices count from the end).
InRange(seq, i) == i >= 0 - Len(seq) /\ i < Len(seq)

PyIdx(seq, i) == IF i >= 0 THEN seq[i + 1] ELSE seq[Len(seq) + i + 1]

\* grid[r][c] raises IndexError unless both indices are in range.
InGrid(grid, r, c) == InRange(grid, r) /\ InRange(PyIdx(grid, r), c)

At(grid, r, c) == PyIdx(PyIdx(grid, r), c)

RECURSIVE Flatten(_)
Flatten(grid) ==
    IF grid = <<>> THEN <<>> ELSE Head(grid) \o Flatten(Tail(grid))

\* ------------------------------------------------------------------ Block
\* contract: a block has a position, a size, a colour, a collidable flag and
\* eight directional links (0 = unset); db is its row id (0 = not persisted).
Dirs == {"n", "ne", "e", "se", "s", "sw", "w", "nw"}

Opposite(d) ==
    CASE d = "n" -> "s" [] d = "ne" -> "sw" [] d = "e" -> "w" [] d = "se" -> "nw"
      [] d = "s" -> "n" [] d = "sw" -> "ne" [] d = "w" -> "e" [] d = "nw" -> "se"

DX(d) == IF d \in {"ne", "e", "se"} THEN 1 ELSE IF d \in {"nw", "w", "sw"} THEN -1 ELSE 0
DY(d) == IF d \in {"nw", "n", "ne"} THEN 1 ELSE IF d \in {"sw", "s", "se"} THEN -1 ELSE 0

\* The attributes Block() draws for a block built from nothing.
Seeds == {[color |-> 0, collidable |-> FALSE], [color |-> 1, collidable |-> TRUE]}

DefaultSeed == [color |-> 0, collidable |-> FALSE]

\* contract: Block(x, y), the coordinate-origin block.
Block(x, y, seed) ==
    [x |-> x, y |-> y,
     width |-> config.block_width, height |-> config.block_height,
     color |-> seed.color, collidable |-> seed.collidable, db |-> 0,
     n |-> 0, ne |-> 0, e |-> 0, se |-> 0, s |-> 0, sw |-> 0, w |-> 0, nw |-> 0]

\* contract: block.create_direction(d), extrusion: a new block next to `b` in
\* direction d with b's shared attributes; it inherits no links, the caller
\* wires them.
create_direction(b, d) ==
    [x |-> b.x + DX(d), y |-> b.y + DY(d),
     width |-> b.width, height |-> b.height,
     color |-> b.color, collidable |-> b.collidable, db |-> 0,
     n |-> 0, ne |-> 0, e |-> 0, se |-> 0, s |-> 0, sw |-> 0, w |-> 0, nw |-> 0]

\* contract: Block.load_from_db_obj(row): a block with the row's persisted
\* position, size, colour and collidable flag, and no links.
Block_load_from_db_obj(row) ==
    [x |-> row.x, y |-> row.y, width |-> row.width, height |-> row.height,
     color |-> row.color, collidable |-> row.collidable, db |-> row.id,
     n |-> 0, ne |-> 0, e |-> 0, se |-> 0, s |-> 0, sw |-> 0, w |-> 0, nw |-> 0]

\* block.<d> = target: a plain attribute assignment on the block object.
SetLink(h, id, d, target) == [h EXCEPT ![id][d] = target]

\* ------------------------------------------------------------------ Chunk
\* The name f'{ClassName}({x}, {y})' as a tuple.
DefaultName(x, y) == <<"Chunk", x, y>>

\* Chunk.__init__(x, y, name): an empty chunk (name = <<>> stands for None).
Chunk__init__(x, y, name) ==
    [db_obj |-> 0, x |-> x, y |-> y,
     width |-> config.window_width, height |-> config.window_height,
     n_rows |-> n_rows, n_cols |-> n_cols,
     players |-> <<>>, mobs |-> <<>>, walls |-> <<>>, objects |-> <<>>,
     name |-> IF name # <<>> THEN name ELSE DefaultName(x, y),
     grid |-> <<>>, blocks |-> <<>>]

\* Chunk.img_file
img_file(chunk) == <<"app/assets/chunks/", chunk.name, ".png">>

\* The running call: the objects it has created so far, the database as it
\* has committed it so far, the number of commits it has made, the commit
\* that will raise (fault, 0 = none), the exception being raised (err) and
\* the value of the last expression evaluated (val; 0 = None); depth is the
\* number of Chunk.load frames on the stack, loads the number of Chunk.load
\* calls made so far.
Running(fault) ==
    [heap |-> <<>>, chunks |-> <<>>, dbc |-> db_chunks, dbb |-> db_blocks,
     files |-> img_files, commits |-> 0, fault |-> fault, err |-> "", val |-> 0,
     depth |-> 0, loads |-> 0]

Raise(m, e) == [m EXCEPT !.err = e, !.val = 0]

\* Sequencing of statements: F runs on the outcome of the statement before
\* it unless that statement raised.
Then(m, F(_)) == IF m.err # "" THEN m ELSE F(m)

\* if cond: block.<d> = target
SetIf(cond, h, id, d, target) == IF cond THEN SetLink(h, id, d, target) ELSE h

\* Chunk.link_blocks, the body of the two loops for the cell (r_i, b_i).
LinkCell(h, grid, cols, r_i, b_i) ==
    SetIf(b_i # 0,
      SetIf(r_i # 0 /\ b_i + 1 # cols,
        SetIf(r_i # 0,
          SetIf(r_i # 0, h, At(grid, r_i, b_i), "s", At(grid, r_i - 1, b_i)),
          At(grid, r_i, b_i), "sw", At(grid, r_i - 1, b_i - 1)),
        At(grid, r_i, b_i), "se", At(grid, r_i - 1, b_i + 1)),
      At(grid, r_i, b_i), "w", At(grid, r_i, b_i - 1))

RECURSIVE LinkFrom(_, _, _, _)
LinkFrom(h, grid, cols, k) ==
    IF grid = <<>> \/ Len(grid[1]) = 0 \/ k >= Len(grid) * Len(grid[1]) THEN h
    ELSE LinkFrom(LinkCell(h, grid, cols, k \div Len(grid[1]), k % Len(grid[1])),
                  grid, cols, k + 1)

\* Chunk.link_blocks
link_blocks(h, chunk) == LinkFrom(h, chunk.grid, chunk.n_cols, 0)

\* db_obj.blocks: the rows of a relationship, as the database returns them
\* (by primary key).
RECURSIVE ById(_)
ById(rows) ==
    IF rows = {} THEN <<>>
    ELSE LET first == CHOOSE b \in rows : \A o \in rows : b.id <= o.id
         IN <<first>> \o ById(rows \ {first})

\* KeyLess with the key's components swapped: key=lambda block: (block.x, block.y).
KeyLess_ByXY(a, b) == a.x < b.x \/ (a.x = b.x /\ a.y < b.y)

\* The sort key of Chunk.load_blocks: key=lambda block: (block.y, block.x).
KeyLess(a, b) == a.y < b.y \/ (a.y = b.y /\ a.x < b.x)

\* sorted(self.blocks, key=...) over the heap h.
Sorted(h, blocks) == SortSeq(blocks, LAMBDA a, b : KeyLess(h[a], h[b]))

\* np.array(sorted).reshape(rows, cols)
Reshape(sorted, rows, cols) ==
    [r \in 1..rows |-> [c \in 1..cols |-> sorted[(r - 1) * cols + c]]]

\* self.blocks = [Block.load_from_db_obj(block) for block in rows]: the new
\* Block objects are appended to the heap.
WithBlocks(h, rows) == h \o [i \in 1..Len(rows) |-> Block_load_from_db_obj(rows[i])]

NewIds(h, rows) == [i \in 1..Len(rows) |-> Len(h) + i]

\* Chunk.load_blocks from the sort on: h holds the new blocks.
SortAndLink(m, ci, h, blocks) ==
    IF Len(blocks) # m.chunks[ci].n_rows * m.chunks[ci].n_cols
    THEN Raise([m EXCEPT !.heap = h, !.chunks[ci].blocks = blocks], "ValueError")
    ELSE [m EXCEPT
            !.chunks[ci].blocks = blocks,
            !.chunks[ci].grid =
                Reshape(Sorted(h, blocks), m.chunks[ci].n_rows, m.chunks[ci].n_cols),
            !.heap = link_blocks(h,
                [m.chunks[ci] EXCEPT !.grid =
                    Reshape(Sorted(h, blocks), m.chunks[ci].n_rows,
                            m.chunks[ci].n_cols)])]

\* Chunk.load_blocks on chunk ci, given the rows of self.db_obj.blocks.
LoadRows(m, ci, rows) ==
    SortAndLink(m, ci, WithBlocks(m.heap, rows), NewIds(m.heap, rows))

\* Chunk.load_blocks on chunk ci: one Block per row of db_obj.blocks, sorted,
\* reshaped to n_rows x n_cols (ValueError when the sizes differ), linked.
load_blocks(m, ci) ==
    IF m.chunks[ci].db_obj = 0 THEN Raise(m, "NameError")
    ELSE LoadRows(m, ci, ById({b \in m.dbb : b.chunk_id = m.chunks[ci].db_obj}))

\* Chunk.load_from_db_obj(db_obj); val is the index of the new chunk.
load_from_db_obj(m, db_obj) ==
    Then(load_blocks([m EXCEPT !.chunks = Append(@,
                        [Chunk__init__(db_obj.x, db_obj.y, db_obj.name)
                            EXCEPT !.db_obj = db_obj.id])],
                     Len(m.chunks) + 1),
         LAMBDA m1 : [m1 EXCEPT !.val = Len(m.chunks) + 1])

\* Wall(x=block.x, y=block.y, width=..., height=..., color=block.color)
Wall(b) == [kind |-> "wall", x |-> b.x, y |-> b.y,
            width |-> b.width, height |-> b.height, color |-> b.color]

\* The walls of Chunk.set_walls, given the collidable blocks.
WallsOf(h, coll) == [i \in 1..Len(coll) |-> Wall(h[coll[i]])]

\* Chunk.set_walls: a Wall for every collidable block, appended to objects.
set_walls(h, chunk) ==
    [chunk EXCEPT !.walls = <<>>,
                  !.objects = @ \o WallsOf(h, SelectSeq(chunk.blocks,
                                                LAMBDA id : h[id].collidable))]

\* Chunk.add_mobs(n): n mobs of the fixed footprint (their pixel positions
\* are random draws that no operation of Chunk reads).
add_mobs(chunk, n) ==
    [chunk EXCEPT !.mobs = @ \o [i \in 1..n |->
                    [kind |-> "mob", width |-> MobSize, height |-> MobSize]]]

\* contract: block.save(commit=False) followed by
\* block.db_obj.chunk_id = self.db_obj.id: the block's row, new or updated,
\* carrying the block's persisted attributes; id 0 = not yet assigned.
BlockRow(b, chunk_id) ==
    [id |-> b.db, chunk_id |-> chunk_id, x |-> b.x, y |-> b.y,
     width |-> b.width, height |-> b.height,
     color |-> b.color, collidable |-> b.collidable]

\* The primary keys the database assigns at commit. The program only ever
\* compares them, so the model names the row of chunk (x, y) and the row of
\* its j-th block by fixed distinct positive numbers (0 stands for None).
ChunkId(x, y) == 1 + x + 2 * y

BlockId(cid, j) == (cid - 1) * (n_rows * n_cols) + j

\* The row id of block b, the j-th block of the chunk with row id cid.
RowId(b, cid, j) == IF b.db = 0 THEN BlockId(cid, j) ELSE b.db

\* The block rows Chunk.save writes; fk is self.db_obj.id as the loop reads it.
BlockRows(h, blocks, cid, fk) ==
    {[BlockRow(h[blocks[j]], fk) EXCEPT !.id = RowId(h[blocks[j]], cid, j)] :
        j \in 1..Len(blocks)}

\* The blocks after the commit: each saved block knows its row.
Saved(h, blocks, cid) ==
    [id \in 1..Len(h) |->
        IF \E j \in 1..Len(blocks) : blocks[j] = id
        THEN [h[id] EXCEPT !.db =
                RowId(h[id], cid, CHOOSE j \in 1..Len(blocks) : blocks[j] = id)]
        ELSE h[id]]

\* session.commit() of Chunk.save: the chunk's row crow and the block rows.
Commit(m, ci, crow, brows) ==
    IF m.commits + 1 = m.fault
    THEN Raise([m EXCEPT !.commits = @ + 1], "CommitError")
    ELSE [m EXCEPT
            !.commits = @ + 1,
            !.dbc = {c \in @ : c.id # crow.id} \cup {crow},
            !.dbb = {b \in @ : \A n \in brows : n.id # b.id} \cup brows,
            !.heap = Saved(@, m.chunks[ci].blocks, crow.id),
            !.chunks[ci].db_obj = crow.id]

\* Chunk.save for a chunk whose row has (or will get) the id cid.
SaveAs(m, ci, chunk, cid) ==
    Commit(m, ci,
           [id |-> cid, x |-> chunk.x, y |-> chunk.y, name |-> chunk.name],
           \* self.db_obj.id is None until the chunk's row has been committed
           BlockRows(m.heap, chunk.blocks, cid, chunk.db_obj))

\* Chunk.save on chunk ci. The rows reach the database at session.commit();
\* a commit that raises persists nothing of its transaction.
save(m, ci) ==
    SaveAs(m, ci, m.chunks[ci],
           IF m.chunks[ci].db_obj = 0
           THEN ChunkId(m.chunks[ci].x, m.chunks[ci].y)
           ELSE m.chunks[ci].db_obj)

\* row.append(new_block) for the new Block b, on the heap h.
Done(st, h, b) ==
    [st EXCEPT !.heap = Append(h, b), !.row = Append(@, Len(h) + 1)]

\* new_block.x, new_block.y = 0, 0
AtOrigin(b) == [b EXCEPT !.x = 0, !.y = 0]

Fail(st) == [st EXCEPT !.err = "IndexError"]

\* FIRST ROW, FIRST COLUMN
BuildOrigin(st, h, w, wg, s, sg, seed) ==
    IF s /\ w THEN
        IF ~(InGrid(sg, -1, 0) /\ InGrid(wg, 0, -1)) THEN Fail(st)
        ELSE Done(st, SetLink(h, At(wg, 0, -1), "se", At(sg, -1, 0)),
                  AtOrigin(create_direction(h[At(wg, 0, -1)], "e")))
    ELSE IF w THEN
        IF ~InGrid(wg, 0, -1) THEN Fail(st)
        ELSE Done(st, h, AtOrigin(create_direction(h[At(wg, 0, -1)], "e")))
    ELSE IF s THEN
        IF ~InGrid(sg, -1, 0) THEN Fail(st)
        ELSE Done(st, h, AtOrigin(create_direction(h[At(sg, -1, 0)], "n")))
    ELSE Done(st, h, Block(0, 0, seed))

\* The back-fill of the previous row's first block `below` from chunk_w.
BackFill(h, below, wg, r_i) ==
    SetLink(SetLink(SetLink(h,
        below, "nw", At(wg, r_i, -1)),
        below, "w", At(wg, r_i - 1, -1)),
        below, "sw", At(wg, r_i - 2, -1))

\* new_block.se = self.grid[r_i-1][c_i+1]; if chunk_w: new_block.w = ...
WestEdge(b, grid, r_i, c_i, w, wg) ==
    [b EXCEPT !.se = At(grid, r_i - 1, c_i + 1),
              !.w = IF w THEN At(wg, r_i, -1) ELSE @]

\* OTHER ROWS, FIRST COLUMN, once the indices are known to be in range;
\* h is the heap after the back-fill.
BuildWestEdge(st, h, below, r_i, c_i, w, wg) ==
    Done(st, h, WestEdge(create_direction(h[below], "n"), st.grid, r_i, c_i, w, wg))

\* OTHER ROWS, FIRST COLUMN
BuildFirstColumn(st, h, r_i, c_i, w, wg) ==
    IF ~InGrid(st.grid, r_i - 1, 0) THEN Fail(st)
    ELSE IF w /\ ~(InGrid(wg, r_i, -1) /\ InGrid(wg, r_i - 1, -1)
                   /\ InGrid(wg, r_i - 2, -1)) THEN Fail(st)
    ELSE IF ~InGrid(st.grid, r_i - 1, c_i + 1) THEN Fail(st)
    ELSE BuildWestEdge(st,
            IF w THEN BackFill(h, At(st.grid, r_i - 1, 0), wg, r_i) ELSE h,
            At(st.grid, r_i - 1, 0), r_i, c_i, w, wg)

\* LAST COLUMN; b is row[-1].create_direction('e')
BuildLastColumn(st, h, b, r_i, c_i) ==
    IF r_i = 0 THEN Done(st, h, b)
    ELSE IF ~(InGrid(st.grid, r_i - 1, c_i) /\ InGrid(st.grid, r_i - 1, c_i - 1))
    THEN Fail(st)
    ELSE Done(st, h, [b EXCEPT !.s = At(st.grid, r_i - 1, c_i),
                               !.sw = At(st.grid, r_i - 1, c_i - 1)])

\* new_block.sw, .s, .se = g[r][c_i-1], g[r][c_i], g[r][c_i+1]
LinkTriple(st, h, b, g, r, c_i) ==
    IF ~(InGrid(g, r, c_i - 1) /\ InGrid(g, r, c_i) /\ InGrid(g, r, c_i + 1))
    THEN Fail(st)
    ELSE Done(st, h, [b EXCEPT !.sw = At(g, r, c_i - 1),
                               !.s = At(g, r, c_i),
                               !.se = At(g, r, c_i + 1)])

\* OTHER COLUMNS; b is row[-1].create_direction('e')
BuildOtherColumn(st, h, b, r_i, c_i, s, sg) ==
    IF r_i = 0 THEN
        IF s THEN LinkTriple(st, h, b, sg, -1, c_i) ELSE Done(st, h, b)
    ELSE LinkTriple(st, h, b, st.grid, r_i - 1, c_i)

\* Chunk.build_blocks, the body of the two loops for the cell (r_i, c_i).
\* st = [heap, grid, row, err]: the heap, self.grid, the row being filled.
\* w, s: whether chunk_w / chunk_s is a chunk; wg, sg: their grids.
BuildCell(st, r_i, c_i, cols, w, wg, s, sg, seed) ==
    IF c_i = 0 THEN
        IF r_i = 0 THEN BuildOrigin(st, st.heap, w, wg, s, sg, seed)
        ELSE BuildFirstColumn(st, st.heap, r_i, c_i, w, wg)
    ELSE IF ~InRange(st.row, -1) THEN Fail(st)
    ELSE IF c_i = cols - 1
    THEN BuildLastColumn(st, st.heap,
                         create_direction(st.heap[PyIdx(st.row, -1)], "e"), r_i, c_i)
    ELSE BuildOtherColumn(st, st.heap,
                          create_direction(st.heap[PyIdx(st.row, -1)], "e"),
                          r_i, c_i, s, sg)

\* self.grid.append(row); row = [] after the last column of a row.
CloseRow(st, c_i, cols) ==
    IF st.err = "" /\ c_i = cols - 1
    THEN [st EXCEPT !.grid = Append(@, st.row), !.row = <<>>]
    ELSE st

\* The two loops of Chunk.build_blocks from cell number k on (row-major).
RECURSIVE BuildFrom(_, _, _, _, _, _, _, _, _)
BuildFrom(st, k, rows, cols, w, wg, s, sg, seed) ==
    IF st.err # "" \/ cols = 0 \/ k >= rows * cols THEN st
    ELSE BuildFrom(CloseRow(BuildCell(st, k \div cols, k % cols, cols,
                                      w, wg, s, sg, seed),
                            k % cols, cols),
                   k + 1, rows, cols, w, wg, s, sg, seed)

\* What Chunk.load does with the chunk it built or hydrated: the image, the
\* sprite (a rendering handle, not modelled), the walls and the mobs.
Activate(m, ci) ==
    [m EXCEPT !.files = @ \cup {img_file(m.chunks[ci])},
              !.chunks[ci] = add_mobs(set_walls(m.heap, @), NumMobs),
              !.val = ci]

\* Chunk.load_from_db_obj on the first row found, then the rest of Chunk.load.
LoadFound(m, found) ==
    IF found = <<>> THEN [m EXCEPT !.val = 0]
    ELSE Then(load_from_db_obj(m, found[1]), LAMBDA m1 : Activate(m1, m1.val))

\* Chunk.load(x, y, create) unless it has to build the chunk: None, or the
\* hydrated chunk.
load_existing(m, x, y) == LoadFound(m, ById({c \in m.dbc : c.x = x /\ c.y = y}))

\* The grid of chunk ci of m, <<>> for None.
GridOf(m, ci) == IF ci # 0 THEN m.chunks[ci].grid ELSE <<>>

\* Chunk.build_blocks after the loops: self.save(), then self.blocks.
FinishBuild(m, ci, st, rows, cols) ==
    IF st.err # "" THEN Raise([m EXCEPT !.heap = st.heap], st.err)
    ELSE Then(save([m EXCEPT
                      !.heap = st.heap,
                      \* with no column the outer loop appends empty rows
                      !.chunks[ci].grid = IF cols = 0 THEN [r \in 1..rows |-> <<>>]
                                          ELSE st.grid],
                   ci),
              LAMBDA m2 : [m2 EXCEPT !.chunks[ci].blocks = Flatten(m2.chunks[ci].grid)])

\* Chunk.build_blocks once chunk_w and chunk_s are known.
BuildGrid(m, ci, chunk_w, chunk_s, rows, cols, seed) ==
    FinishBuild(m, ci,
        BuildFrom([heap |-> m.heap, grid |-> <<>>, row |-> <<>>, err |-> ""],
                  0, rows, cols, chunk_w # 0, GridOf(m, chunk_w),
                  chunk_s # 0, GridOf(m, chunk_s), seed),
        rows, cols)

\* DefaultCreate with the neighbours created on demand: create=True.
DefaultCreate_True == TRUE

\* def load(x, y, create=False): the value of create when a caller omits it.
DefaultCreate == FALSE

RECURSIVE load(_, _, _, _, _)

\* Chunk.build_blocks on chunk ci: chunk_w = Chunk.load(self.x-1, self.y),
\* chunk_s = Chunk.load(self.x, self.y-1), then the grid.
build_blocks(m, ci, seed) ==
    Then(load(m, m.chunks[ci].x - 1, m.chunks[ci].y, DefaultCreate, seed),
         LAMBDA mw :
            Then(load(mw, m.chunks[ci].x, m.chunks[ci].y - 1, DefaultCreate, seed),
                 LAMBDA ms :
                    BuildGrid(ms, ci, mw.val, ms.val,
                              m.chunks[ci].height \div config.block_height,
                              m.chunks[ci].width \div config.block_width,
                              seed)))

\* LoadNew without the chunk.save() that follows chunk.build_blocks().
LoadNew_SaveOnce(m, ci, x, y, seed) ==
    Then(build_blocks([m EXCEPT !.chunks = Append(@, Chunk__init__(x, y, <<>>))],
                      ci, seed),
         LAMBDA m2 : Activate(m2, ci))

\* Chunk.load when no row is found and create is set: chunk ci is built.
LoadNew(m, ci, x, y, seed) ==
    Then(build_blocks([m EXCEPT !.chunks = Append(@, Chunk__init__(x, y, <<>>))],
                      ci, seed),
         LAMBDA m2 : Then(save(m2, ci), LAMBDA m3 : Activate(m3, ci)))

\* The body of Chunk.load(x, y, create).
LoadBody(m, x, y, create, seed) ==
    IF create /\ ~\E c \in m.dbc : c.x = x /\ c.y = y
    THEN LoadNew(m, Len(m.chunks) + 1, x, y, seed)
    ELSE load_existing(m, x, y)

\* A call of Chunk.load pushes a frame; its return or its exception pops it.
Enter(m) == [m EXCEPT !.depth = @ + 1, !.loads = @ + 1]

Leave(m) == [m EXCEPT !.depth = @ - 1]

\* Chunk.load that builds a missing chunk whatever `create` says.
load_IgnoreCreate(m, x, y, create, seed) ==
    IF m.depth >= MaxDepth THEN Raise(m, "RecursionError")
    ELSE Leave(LoadBody(Enter(m), x, y, TRUE, seed))

\* Chunk.load(x, y, create); val is the index of the returned chunk, 0 = None.
\* Python raises RecursionError when the calls nest too deep.
load(m, x, y, create, seed) ==
    IF m.depth >= MaxDepth THEN Raise(m, "RecursionError")
    ELSE Leave(LoadBody(Enter(m), x, y, create, seed))

\* ----------------------------------------------------- calls of Chunk.load
\* What a caller can observe of chunk ci: coordinate, name and, per grid
\* cell, the block's position, size, colour and collidable flag.
Cell(b) == [x |-> b.x, y |-> b.y, width |-> b.width, height |-> b.height,
            color |-> b.color, collidable |-> b.collidable]

View(chs, h, ci) ==
    [coords |-> <<chs[ci].x, chs[ci].y>>, name |-> chs[ci].name,
     cells |-> [r \in 1..Len(chs[ci].grid) |->
                  [c \in 1..Len(chs[ci].grid[r]) |-> Cell(h[chs[ci].grid[r][c]])]]]

HasRow(x, y) == \E c \in db_chunks : c.x = x /\ c.y = y

NoCall == [kind |-> "init", x |-> 0, y |-> 0, create |-> FALSE, fault |-> 0,
           chunk |-> 0, generated |-> FALSE, err |-> "", loads |-> 0]

\* prev: "repeat" when the latest call and the call before it were both
\* load(x, y, create=True) for the same (x, y) and the earlier one returned a
\* chunk, with `generated` telling whether the earlier one built it.
NoPrev == [rel |-> "other", generated |-> FALSE]

\* How a call ended: it raised, returned None or returned a chunk.
Kind(m) == IF m.err # "" THEN "raise" ELSE IF m.val = 0 THEN "none" ELSE "chunk"

\* The state a call of Chunk.load(x, y, create) leaves, m being the call run
\* to its end. A call that raises leaves no object behind, only what it had
\* committed.
Returns(m, x, y, create, fault, generating) ==
    /\ db_chunks' = m.dbc
    /\ db_blocks' = m.dbb
    /\ img_files' = m.files
    /\ heap' = IF Kind(m) = "raise" THEN <<>> ELSE m.heap
    /\ chunks' = IF Kind(m) = "raise" THEN <<>> ELSE m.chunks
    /\ ret' = [kind |-> Kind(m), x |-> x, y |-> y, create |-> create,
               fault |-> fault, chunk |-> m.val, generated |-> generating,
               err |-> m.err, loads |-> m.loads]
    /\ prev' = IF ret.kind = "chunk" /\ ret.create /\ create
                  /\ ret.x = x /\ ret.y = y
               THEN [rel |-> "repeat", generated |-> ret.generated]
               ELSE NoPrev
    /\ resolved' = IF Kind(m) = "chunk" THEN resolved \cup {<<x, y>>} ELSE resolved
    /\ UNCHANGED <<config, calls, tickVars>>

\* A caller runs Chunk.load(x, y, create) to its end. seed: what Block() draws
\* if the call builds an origin block from nothing; fault: which of the
\* call's commits raises (0 = none).
Resolve(x, y, create, seed, fault) ==
    /\ fault # 0 => create /\ ~HasRow(x, y)
    /\ seed # DefaultSeed => create /\ ~HasRow(x, y)
                             /\ ~HasRow(x - 1, y) /\ ~HasRow(x, y - 1)
    /\ Returns(load(Running(fault), x, y, create, seed),
               x, y, create, fault, create /\ ~HasRow(x, y))

Init ==
    /\ config \in Configs
    /\ db_chunks = {}
    /\ db_blocks = {}
    /\ img_files = {}
    /\ heap = <<>>
    /\ chunks = <<>>
    /\ ret = NoCall
    /\ prev = NoPrev
    /\ resolved = {}
    /\ objs = <<>>
    /\ pc = "idle"
    /\ oi = 0
    /\ oj = 0
    /\ log = <<>>
    /\ calls = <<>>

Next ==
    \E c \in Coords, create \in BOOLEAN, seed \in Seeds, fault \in 0..2 :
        Resolve(c[1], c[2], create, seed, fault)

Spec == Init /\ [][Next]_vars

\* ------------------------------------------------------------ Chunk.update
\* contract: a game object offers update, collides_with and on_collision and
\* carries the flags mobile and collidable. Here it has a position on a line;
\* two objects collide when their positions coincide, and update() may move
\* a mobile object by one position.
GameObjects == [mobile : BOOLEAN, collidable : BOOLEAN, pos : 0..MaxPos]

collides_with(a, b) == a.pos = b.pos

Moves(o) == IF o.mobile THEN {o.pos, (o.pos + 1) % (MaxPos + 1)} ELSE {o.pos}

\* update() starts: collision_checked = [], the outer loop is at its first object.
UpdateBegin ==
    /\ pc = "idle"
    /\ pc' = "outer"
    /\ oi' = 1
    /\ oj' = 0
    /\ log' = <<>>
    /\ UNCHANGED <<config, calls, loadVars, objs>>

\* UpdateObj without the test `if obj.mobile`: every obj runs the inner loop.
UpdateObj_AnyObject ==
    /\ pc = "outer"
    /\ oi <= Len(objs)
    /\ \E p \in Moves(objs[oi]) :
          objs' = [objs EXCEPT ![oi].pos = p]
    /\ log' = Append(log, [op |-> "update", obj |-> oi, other |-> 0])
    /\ pc' = "inner" /\ oj' = 1 /\ oi' = oi
    /\ UNCHANGED <<config, calls, loadVars>>

\* The outer loop's body up to the inner loop: obj.update(), then the inner
\* loop for a mobile obj, the next obj otherwise.
UpdateObj ==
    /\ pc = "outer"
    /\ oi <= Len(objs)
    /\ \E p \in Moves(objs[oi]) :
          objs' = [objs EXCEPT ![oi].pos = p]
    /\ log' = Append(log, [op |-> "update", obj |-> oi, other |-> 0])
    /\ IF objs[oi].mobile
       THEN pc' = "inner" /\ oj' = 1 /\ oi' = oi
       ELSE pc' = "outer" /\ oj' = 0 /\ oi' = oi + 1
    /\ UNCHANGED <<config, calls, loadVars>>

\* One iteration of the inner loop: other_obj is skipped when it is obj or
\* not collidable; a collision calls on_collision on both.
UpdateOther ==
    /\ pc = "inner"
    /\ oj <= Len(objs)
    /\ log' = IF oj # oi /\ objs[oj].collidable /\ collides_with(objs[oi], objs[oj])
              THEN log \o <<[op |-> "on_collision", obj |-> oi, other |-> oj],
                            [op |-> "on_collision", obj |-> oj, other |-> oi]>>
              ELSE log
    /\ oj' = oj + 1
    /\ UNCHANGED <<config, calls, loadVars, objs, pc, oi>>

\* The inner loop is exhausted: collision_checked.append(obj), next obj.
UpdateChecked ==
    /\ pc = "inner"
    /\ oj > Len(objs)
    /\ pc' = "outer"
    /\ oi' = oi + 1
    /\ oj' = 0
    /\ UNCHANGED <<config, calls, loadVars, objs, log>>

\* The outer loop is exhausted: update() returns.
UpdateEnd ==
    /\ pc = "outer"
    /\ oi > Len(objs)
    /\ pc' = "idle"
    /\ UNCHANGED <<config, calls, loadVars, objs, oi, oj, log>>

InitUpdate ==
    /\ config = [window_width |-> MaxWindow, window_height |-> MaxWindow,
                 block_width |-> 1, block_height |-> 1]
    /\ db_chunks = {}
    /\ db_blocks = {}
    /\ img_files = {}
    /\ heap = <<>>
    /\ chunks = <<>>
    /\ ret = NoCall
    /\ prev = NoPrev
    /\ resolved = {}
    /\ \E n \in 1..MaxObjects : objs \in [1..n -> GameObjects]
    /\ pc = "idle"
    /\ oi = 0
    /\ oj = 0
    /\ log = <<>>
    /\ calls = <<>>

NextUpdate ==
    \/ UpdateBegin
    \/ UpdateObj
    \/ UpdateOther
    \/ UpdateChecked
    \/ UpdateEnd

SpecUpdate == InitUpdate /\ [][NextUpdate]_vars

\* --------------------------------------------------------- LazyChunkLoader
\* dir_map of LazyChunkLoader.__get__: the coordinate each direction names.
dir_map(obj) ==
    [d \in Dirs |->
        CASE d = "n"  -> <<obj.x, obj.y + 1>>
          [] d = "ne" -> <<obj.x + 1, obj.y + 1>>
          [] d = "e"  -> <<obj.x + 1, obj.y>>
          [] d = "se" -> <<obj.x + 1, obj.y - 1>>
          [] d = "s"  -> <<obj.x, obj.y - 1>>
          [] d = "sw" -> <<obj.x - 1, obj.y - 1>>
          [] d = "w"  -> <<obj.x - 1, obj.y>>
          [] d = "nw" -> <<obj.x - 1, obj.y + 1>>]

\* LazyChunkLoader(direction).__get__(obj): reading obj.<direction> calls
\* world.load_chunk(*dir_map[direction], create=True) and returns its result;
\* the descriptor stores nothing on obj. world is another module of the
\* application: the model records the call.
Access(obj, direction) ==
    /\ Len(calls) < MaxAccess
    /\ calls' = Append(calls, [obj |-> <<obj.x, obj.y>>, direction |-> direction,
                               target |-> dir_map(obj)[direction], create |-> TRUE])
    /\ UNCHANGED <<config, loadVars, tickVars>>

InitAccess ==
    /\ config = [window_width |-> MaxWindow, window_height |-> MaxWindow,
                 block_width |-> 1, block_height |-> 1]
    /\ db_chunks = {}
    /\ db_blocks = {}
    /\ img_files = {}
    /\ heap = <<>>
    /\ chunks = <<>>
    /\ ret = NoCall
    /\ prev = NoPrev
    /\ resolved = {}
    /\ objs = <<>>
    /\ pc = "idle"
    /\ oi = 0
    /\ oj = 0
    /\ log = <<>>
    /\ calls = <<>>

NextAccess ==
    \E c \in Coords, d \in Dirs : Access(Chunk__init__(c[1], c[2], <<>>), d)

SpecAccess == InitAccess /\ [][NextAccess]_vars

\* ================================================================ claims
\* Helpers of the claims.

\* The chunk object of the latest call for coordinate (x, y), 0 if the call
\* created none.
ChunkAt(x, y) ==
    IF \E i \in 1..Len(chunks) : chunks[i].x = x /\ chunks[i].y = y
    THEN CHOOSE i \in 1..Len(chunks) : chunks[i].x = x /\ chunks[i].y = y
    ELSE 0

Returned == ret.kind = "chunk"

\* The latest call built the chunk it returned.
Generated == ret.kind = "chunk" /\ ret.generated

Grid == chunks[ret.chunk].grid

\* The grid cell <<r, c>> (0-based) of block id in a grid, <<>> if not in it.
CellOf(grid, id) ==
    IF \E r \in 1..Len(grid) : \E c \in 1..Len(grid[r]) : grid[r][c] = id
    THEN CHOOSE rc \in (0..Len(grid) - 1) \X (0..n_cols - 1) :
             grid[rc[1] + 1][rc[2] + 1] = id
    ELSE <<>>

\* Every chunk row of the store has its n_rows x n_cols block rows.
StoreComplete ==
    \A c \in db_chunks :
        Cardinality({b \in db_blocks : b.chunk_id = c.id}) = n_rows * n_cols

\* C1: two consecutive calls load(x, y, create=True), the first of which
\* returned a chunk, return chunks with the same coordinate, the same name
\* and, cell by cell, blocks with the same position, size, colour and
\* collidable flag.
C1_ResolveIdempotent ==
    [][(ret.kind = "chunk" /\ ret.create /\ ret'.create
        /\ ret'.x = ret.x /\ ret'.y = ret.y)
       => (ret'.kind = "chunk"
           /\ View(chunks', heap', ret'.chunk) = View(chunks, heap, ret.chunk))]_vars

\* C1 witness: a chunk with at least two rows and two columns was built by
\* one call and returned again by the next call for the same coordinate.
C1_Witness ==
    /\ prev.rel = "repeat" /\ prev.generated
    /\ ret.kind = "chunk" /\ ~ret.generated
    /\ n_rows >= 2 /\ n_cols >= 2

\* C2: when chunk (x, y) is generated while chunk (x-1, y) exists, the west
\* link of the new chunk's block at (row r, column 0) is the west chunk's
\* block at (row r, last column), for every row r.
C2_WestEdgeLinked ==
    (Generated /\ ChunkAt(ret.x - 1, ret.y) # 0) =>
        \A r \in 0..(n_rows - 1) :
            heap[At(Grid, r, 0)].w = At(chunks[ChunkAt(ret.x - 1, ret.y)].grid, r, -1)

\* C3: in a linked grid (built or hydrated), if A's link in direction D is B,
\* a block of the same chunk, then B's link in the opposite direction is A.
C3_LinkSymmetry ==
    Returned =>
        \A a \in 1..Len(heap), d \in Dirs :
            (CellOf(Grid, a) # <<>> /\ heap[a][d] # 0 /\ CellOf(Grid, heap[a][d]) # <<>>)
                => heap[heap[a][d]][Opposite(d)] = a

\* C4: a chunk generated by one call and reloaded by the next has, for every
\* block and every direction, the same intra-chunk link (the same target
\* cell, or none where the generated one had none or a cross-chunk link).
C4_RoundTripLinks ==
    [][(Generated /\ ret'.kind = "chunk" /\ ret'.x = ret.x /\ ret'.y = ret.y)
       => \A r \in 0..(n_rows - 1), c \in 0..(n_cols - 1), d \in Dirs :
            CellOf(chunks'[ret'.chunk].grid,
                   heap'[At(chunks'[ret'.chunk].grid, r, c)][d])
            = CellOf(Grid, heap[At(Grid, r, c)][d])]_vars

\* C5: a call never constructs a Chunk object for a coordinate for which a
\* Chunk object was already handed out: at most one instance per coordinate.
C5_OneInstancePerCoordinate ==
    [][\A i \in 1..Len(chunks') : <<chunks'[i].x, chunks'[i].y>> \notin resolved]_vars

\* C6: a call that fails while generating chunk (x, y) leaves no row for
\* (x, y) in the store.
C6_NoPartialChunk ==
    (ret.kind = "raise" /\ ret.generated) => ~HasRow(ret.x, ret.y)

\* C8: with n_rows >= 1 and n_cols >= 1, no injected fault and a store of
\* complete chunks, generating a chunk completes and leaves n_rows x n_cols
\* blocks arranged as n_rows rows of n_cols blocks.
C8_BuildCompletes ==
    (ret.kind # "init" /\ ret.generated /\ ret.fault = 0 /\ StoreComplete
     /\ n_rows >= 1 /\ n_cols >= 1)
    => (ret.kind = "chunk"
        /\ Len(chunks[ret.chunk].blocks) = n_rows * n_cols
        /\ Len(Grid) = n_rows
        /\ \A r \in 1..n_rows : Len(Grid[r]) = n_cols)

\* C9: when the window size is not an exact multiple of the block size, no
\* chunk is ever built or persisted.
C9_NonMultipleRejected ==
    (config.window_width % config.block_width # 0
     \/ config.window_height % config.block_height # 0)
    => (ret.kind # "chunk" /\ db_chunks = {})

\* C10: a chunk generated while its east neighbour (x+1, y) exists has the
\* east link of its block at (row r, last column) set to the east chunk's
\* block at (row r, column 0), for every row r.
C10_EastEdgeLinked ==
    (Generated /\ HasRow(ret.x + 1, ret.y)) =>
        /\ ChunkAt(ret.x + 1, ret.y) # 0
        /\ \A r \in 0..(n_rows - 1) :
              heap[At(Grid, r, -1)].e = At(chunks[ChunkAt(ret.x + 1, ret.y)].grid, r, 0)

\* The number of calls a.on_collision(b) the tick has made.
Collisions(a, b) ==
    Cardinality({k \in 1..Len(log) :
                    log[k] = [op |-> "on_collision", obj |-> a, other |-> b]})

TickDone == pc = "idle" /\ oi > 0

\* A is mobile and collidable, B is collidable and not mobile.
MobileVsFixed(a, b) ==
    /\ objs[a].mobile /\ objs[a].collidable
    /\ ~objs[b].mobile /\ objs[b].collidable

\* C7: in one tick, for A mobile and collidable and B collidable and not
\* mobile, anywhere in the object list: on_collision is called exactly once
\* on A with B and once on B with A when they overlap, and never for that
\* pair when they do not.
C7_CollisionOncePerTick ==
    TickDone =>
        \A a \in 1..Len(objs), b \in 1..Len(objs) :
            MobileVsFixed(a, b) =>
                LET n == IF collides_with(objs[a], objs[b]) THEN 1 ELSE 0
                IN Collisions(a, b) = n /\ Collisions(b, a) = n

\* C7 witness: a tick has ended in which such a pair overlapped, B standing
\* before A in the list, beside another pair that did not overlap.
C7_Witness ==
    /\ TickDone
    /\ \E a \in 1..Len(objs), b \in 1..Len(objs) :
          /\ b < a /\ MobileVsFixed(a, b)
          /\ collides_with(objs[a], objs[b])
          /\ Collisions(a, b) = 1 /\ Collisions(b, a) = 1
    /\ \E a \in 1..Len(objs), b \in 1..Len(objs) :
          /\ MobileVsFixed(a, b)
          /\ ~collides_with(objs[a], objs[b])
          /\ Collisions(a, b) = 0

\* The number of world.load_chunk calls made for the accessor `direction` of
\* the chunk at coordinate c.
ResolveCalls(c, direction) ==
    Cardinality({k \in 1..Len(calls) :
                    calls[k].obj = c /\ calls[k].direction = direction})

\* C11: over any sequence of accesses, the resolve call for a (chunk,
\* direction) is made at most once (later accesses are served from the
\* memoized result).
C11_ResolveAtMostOnce ==
    \A c \in Coords, d \in Dirs : ResolveCalls(c, d) <= 1

\* C12: a call load(x, y, create=True) returns or raises after a bounded
\* number of nested load calls, whatever the store holds: the call itself
\* and at most the two look-ups of build_blocks, never Python's
\* RecursionError.
C12_ResolveTerminates ==
    (ret.kind # "init" /\ ret.create) =>
        (ret.err # "RecursionError" /\ ret.loads <= 3)

\* C12 witness: a chunk was generated on an empty store, with the two nested
\* look-ups of build_blocks.
C12_Witness ==
    Generated /\ ret.loads = 3 /\ Cardinality(db_chunks) = 1

\* C13: when load(x, y, create=True) returns after generating (x, y), the
\* store holds chunk rows for (x-1, y) and (x, y-1).
C13_NeighboursCreated ==
    Generated => (HasRow(ret.x - 1, ret.y) /\ HasRow(ret.x, ret.y - 1))

\* C15: a call load(x, y, create=False) for a coordinate without a chunk row
\* returns None and leaves the chunk table and the block table as they were.
C15_AbsentLeavesStore ==
    [][(~ret'.create /\ ~HasRow(ret'.x, ret'.y))
       => (ret'.kind = "none" /\ db_chunks' = db_chunks /\ db_blocks' = db_blocks)]_vars

\* C15 witness: such a call returned None on a store that holds other chunks.
C15_Witness ==
    /\ ret.kind = "none" /\ ~ret.create
    /\ ~HasRow(ret.x, ret.y)
    /\ db_chunks # {} /\ db_blocks # {}

\* The number of calls k.update() the tick has made.
Updates(k) ==
    Cardinality({n \in 1..Len(log) :
                    log[n] = [op |-> "update", obj |-> k, other |-> 0]})

\* The next step of update() is the call obj.collides_with(other_obj).
AboutToTest ==
    pc = "inner" /\ oj <= Len(objs) /\ oj # oi /\ objs[oj].collidable

\* C14: a tick calls update exactly once on every object of the list, and
\* all of these calls have been made when the tick makes a collision test.
C14_UpdatesBeforeTests ==
    /\ TickDone => \A k \in 1..Len(objs) : Updates(k) = 1
    /\ AboutToTest => \A k \in 1..Len(objs) : Updates(k) = 1

\* The latest call returned a chunk it hydrated from the store.
Hydrated == ret.kind = "chunk" /\ ~ret.generated

\* The cell geometrically adjacent to (r, c) in direction d.
Adjacent(r, c, d) == <<r + DY(d), c + DX(d)>>

InsideGrid(rc) == rc[1] \in 0..(n_rows - 1) /\ rc[2] \in 0..(n_cols - 1)

\* C16: in a hydrated chunk, for every cell (r, c) and each of s, sw, se, w:
\* a link that is set is the block of the adjacent cell, (r-1, c),
\* (r-1, c-1), (r-1, c+1), (r, c-1), and a link whose adjacent cell is
\* outside the grid is unset.
C16_LinksAreAdjacent ==
    Hydrated =>
        \A r \in 0..(n_rows - 1), c \in 0..(n_cols - 1), d \in {"s", "sw", "se", "w"} :
            IF InsideGrid(Adjacent(r, c, d))
            THEN heap[At(Grid, r, c)][d] \in
                    {0, At(Grid, Adjacent(r, c, d)[1], Adjacent(r, c, d)[2])}
            ELSE heap[At(Grid, r, c)][d] = 0

\* The grid of the west chunk the latest call loaded.
WestGrid == chunks[ChunkAt(ret.x - 1, ret.y)].grid

\* The block of the west chunk at (row r, last column), 0 if there is no
\* such row.
WestEdgeBlock(r) ==
    IF r \in 0..(n_rows - 1) THEN At(WestGrid, r, -1) ELSE 0

\* C17: in a chunk generated while its west chunk exists, for every row r the
\* links w, nw and sw of the block at (r, column 0), when set, are the west
\* chunk's last-column blocks at rows r, r+1 and r-1; the sw link of the
\* row-0 block is no block of the west chunk.
C17_WestLinksMatchRows ==
    (Generated /\ ChunkAt(ret.x - 1, ret.y) # 0) =>
        \A r \in 0..(n_rows - 1) :
            /\ heap[At(Grid, r, 0)].w \in {0, WestEdgeBlock(r)}
            /\ heap[At(Grid, r, 0)].nw \in {0, WestEdgeBlock(r + 1)}
            /\ heap[At(Grid, r, 0)].sw \in {0, WestEdgeBlock(r - 1)}

\* The grid of the south chunk the latest call loaded.
SouthGrid == chunks[ChunkAt(ret.x, ret.y - 1)].grid

\* C18: in a chunk generated while its south chunk exists, the s link of
\* every row-0 block, in every column c from 0 to n_cols-1, is the south
\* chunk's last-row block of column c.
C18_SouthEdgeLinked ==
    (Generated /\ ChunkAt(ret.x, ret.y - 1) # 0) =>
        \A c \in 0..(n_cols - 1) :
            heap[At(Grid, 0, c)].s = At(SouthGrid, -1, c)

\* The chunk rows the store holds for the coordinate of the latest call.
RowsOf == {c \in db_chunks : c.x = ret.x /\ c.y = ret.y}

\* C19: when load(x, y, create=True) returns after generating the chunk, the
\* store holds exactly one chunk row for (x, y), with an id, and exactly
\* n_rows x n_cols block rows whose chunk_id is that id; each block of the
\* chunk has one of these rows, and no block row has an empty chunk_id.
C19_GeneratedChunkStored ==
    Generated =>
        /\ Cardinality(RowsOf) = 1
        /\ \A c \in RowsOf :
              /\ c.id # 0
              /\ Cardinality({b \in db_blocks : b.chunk_id = c.id}) = n_rows * n_cols
              /\ \A j \in 1..Len(chunks[ret.chunk].blocks) :
                    \E b \in db_blocks :
                        /\ b.id = heap[chunks[ret.chunk].blocks[j]].db
                        /\ b.chunk_id = c.id
        /\ Len(chunks[ret.chunk].blocks) = n_rows * n_cols
        /\ \A b \in db_blocks : b.chunk_id # 0

\* C19 witness: a chunk of at least four blocks was generated next to a
\* stored neighbour.
C19_Witness ==
    /\ Generated
    /\ n_rows * n_cols >= 4
    /\ Cardinality(db_chunks) >= 2
    /\ Cardinality({b \in db_blocks : \E c \in RowsOf : b.chunk_id = c.id}) >= 4

====
